---- MODULE Spec2Model ----
(***************************************************************************)
(* Sharded indexing of the A-mem benchmark.                                *)
(*                                                                         *)
(* Part I  : the Orchestrator, i.e. run_parallel_indexing of               *)
(*           parallel_index.py ("manager") and the parallel indexing step  *)
(*           of main in amem_full_pipeline.py ("pipeline").  Worker        *)
(*           processes are seen as the Orchestrator sees them: a Popen     *)
(*           handle whose poll() is None or a return code.                 *)
(* Part II : the Worker, process_indexing of amem_process_index.py, with   *)
(*           the files it reads and writes.                                *)
(* Part III: the monitor loops of the two Orchestrator programs, each as a  *)
(*           step function of its own, run side by side on the same        *)
(*           workers.                                                      *)
(***************************************************************************)
EXTENDS Integers, Sequences, FiniteSets, TLC

\* ------------------------------------------------------------------ bounds
MaxWorkers == 3
MaxInterrupts == 1
MaxShards == 2
MaxItems == 2
MaxSelItems == 3
MaxTurns == 2
MaxRestarts == 1
MaxFaults == 1

\* ------------------------------------------------------- program constants
Grace == 5              \* proc.wait(timeout=5)
SIGTERM == 15           \* proc.terminate()
SIGKILL == 9            \* proc.kill()
ExitFailed == 1         \* sys.exit(1)
ExitUncaughtInterrupt == 130   \* KeyboardInterrupt leaving main uncaught
None == <<>>                    \* Python None: no return code yet

VARIABLES
  orch,        \* which orchestrator program runs: "manager" or "pipeline"
  max_workers, \* args.max_workers
  opc,         \* position of the Orchestrator in its code
  oi,          \* index of the current for-loop over workers
  workers,     \* number of handles appended to workers / index_processes
  proc,        \* proc[w]: "unspawned", "running" or "exited"
  code,        \* code[w]: <<return code>> of an exited worker process, None before
  termSent,    \* termSent[w]: proc.terminate() was called on w
  killSent,    \* killSent[w]: proc.kill() was called on w
  logf,        \* logf[w]: per-worker log handle: "none", "open", "closed"
  failed,      \* local variable failed: "unbound", "false", "true"
  all_done,    \* local variable all_done
  oexit,       \* <<exit status>> of the Orchestrator process, None while it runs
  waited,      \* time spent so far in the current proc.wait(timeout=5)
  telapsed,    \* time elapsed since the termination phase started
  interrupts,  \* number of external interrupts delivered so far
  log_dir,     \* --log_dir: <<directory>>, None when the option is not given
  stage,       \* pipeline: number of the stage that runs or is to run next
  stage_st,    \* pipeline: history: "notrun", "running", "ok", "failed" per stage
  pipe_meta,   \* pipeline: the pipeline metadata file was written
  nw,          \* side-by-side run: number N of workers of each of the two loops
  wstat,       \* side-by-side run: wstat[w]: what poll() of worker w returns
  mgr,         \* side-by-side run: the monitor of run_parallel_indexing
  pip          \* side-by-side run: the inline monitor of the pipeline

\* what the orchestration of the workers leaves alone
\* the two monitor loops run side by side on the same worker exit events
cvars == <<nw, wstat, mgr, pip>>

pvars == <<log_dir, stage, stage_st, pipe_meta, cvars>>

ovars == <<orch, max_workers, opc, oi, workers, proc, code, termSent, killSent,
           logf, failed, all_done, oexit, waited, telapsed, interrupts, pvars>>

VARIABLES
  num_shards,       \* --num_shards
  active,           \* shard ids of the Worker processes that were launched
  dataset,          \* json.load(input_file): sequence of conversations
  wpc,              \* wpc[s]: position of Worker s in process_indexing
  wexit,            \* wexit[s]: <<exit status>> of Worker s, None while it runs
  conv_idx,         \* conv_idx[s]: index of the outer for loop
  turn_idx,         \* turn_idx[s]: index of the inner for loop
  processed_turns,  \* processed_turns[s]: the in-memory set of turn keys
  added_count,      \* added_count[s]
  index_metadata,   \* index_metadata[s]: conv dirs whose metadata was appended
  processed_file,   \* processed_file[d]: <conv_dir>/processed_turns.json
  completed_flag,   \* completed_flag[d]: <conv_dir>/completed.flag exists
  metadata_file,    \* metadata_file[d]: <conv_dir>/memory_metadata.json
  store,            \* store[d][t]: notes of turn t in the persistent collection
  index_file,       \* index_file[s]: index_metadata_<s>.json
  restarts,         \* number of re-invocations so far
  faults,           \* number of exceptions raised and of crashes so far
  selected,         \* history: indices that passed the sharding check, this run
  committedEver,    \* history: keys whose checkpoint write ever completed
  softFailed,       \* history: turns of the entity that soft-failed, this run
  counted,          \* history: turns of the entity counted in added_count
  fatalAt,          \* history: where a fatal-pattern error was raised, this run
  initFatal,        \* history: items whose memory init raised such an error
  corrupted         \* history: a checkpoint file was ever left truncated

wvars == <<num_shards, active, dataset, wpc, wexit, conv_idx, turn_idx,
           processed_turns, added_count, index_metadata, processed_file,
           completed_flag, metadata_file, store, index_file, restarts, faults,
           selected, committedEver, softFailed, counted, fatalAt,
           initFatal, corrupted>>

vars == <<ovars, wvars>>

WorkerIds == 0 .. (MaxWorkers - 1)

\* proc.poll(): None while the process runs, its return code afterwards
ReturnCode(w) == IF proc[w] = "running" THEN None ELSE code[w]

\* exit codes a worker process can end with by itself or by an outside signal
OwnExitCodes == {0, ExitFailed, -SIGKILL}

ShardIds == 0 .. (MaxShards - 1)
Dirs == 0 .. ((IF MaxItems > MaxSelItems THEN MaxItems ELSE MaxSelItems) - 1)
TurnIds == 0 .. (MaxTurns - 1)

\* an absent file
Absent == [st |-> "absent", keys |-> {}]

\* no Worker code is running and the output directory is empty
WorkersIdle ==
  /\ num_shards = 1
  /\ active = {}
  /\ dataset = <<>>
  /\ wpc = [s \in ShardIds |-> "idle"]
  /\ wexit = [s \in ShardIds |-> None]
  /\ conv_idx = [s \in ShardIds |-> 0]
  /\ turn_idx = [s \in ShardIds |-> 0]
  /\ processed_turns = [s \in ShardIds |-> {}]
  /\ added_count = [s \in ShardIds |-> 0]
  /\ index_metadata = [s \in ShardIds |-> <<>>]
  /\ processed_file = [d \in Dirs |-> Absent]
  /\ completed_flag = [d \in Dirs |-> FALSE]
  /\ metadata_file = [d \in Dirs |-> None]
  /\ store = [d \in Dirs |-> [t \in TurnIds |-> 0]]
  /\ index_file = [s \in ShardIds |-> None]
  /\ restarts = 0
  /\ faults = 0
  /\ selected = [s \in ShardIds |-> {}]
  /\ committedEver = [d \in Dirs |-> {}]
  /\ softFailed = [s \in ShardIds |-> {}]
  /\ counted = [s \in ShardIds |-> {}]
  /\ fatalAt = [s \in ShardIds |-> None]
  /\ initFatal = [s \in ShardIds |-> {}]
  /\ corrupted = FALSE

\* Index, Retrieve, Retrieval evaluation, Generation evaluation
StageNames == <<"index", "retrieve", "retrieval_eval", "generation_eval">>

\* the local state of a monitor loop when it starts: failed = False, and
\* all_done = True at the head of the first round of the while loop
MonitorStart ==
  [pc |-> "poll", i |-> 0, failed |-> FALSE, all_done |-> TRUE, round |-> 0,
   waited |-> 0, term |-> {}, kill |-> {}, exit |-> None]

\* no side-by-side run of the two monitor loops
CompareIdle ==
  /\ nw = 0
  /\ wstat = [w \in WorkerIds |-> None]
  /\ mgr = [MonitorStart EXCEPT !.pc = "idle"]
  /\ pip = [MonitorStart EXCEPT !.pc = "idle"]

\* no stage of the pipeline has been run through run_command
StagesIdle ==
  /\ stage = 1
  /\ stage_st = [k \in 1 .. Len(StageNames) |-> "notrun"]
  /\ pipe_meta = FALSE

PipeIdle == StagesIdle /\ CompareIdle

\* values of the --log_dir option
LogDirs == {None, <<"logs">>}

OrchStart ==
  /\ WorkersIdle
  /\ PipeIdle
  /\ orch \in {"manager", "pipeline"}
  /\ max_workers \in 0 .. MaxWorkers
  /\ orch = "pipeline" => max_workers > 1   \* args.max_workers > 1 branch
  /\ opc = "spawn"
  /\ oi = 0
  /\ workers = 0
  /\ proc = [w \in WorkerIds |-> "unspawned"]
  /\ code = [w \in WorkerIds |-> None]
  /\ termSent = [w \in WorkerIds |-> FALSE]
  /\ killSent = [w \in WorkerIds |-> FALSE]
  /\ logf = [w \in WorkerIds |-> "none"]
  /\ failed = "unbound"
  /\ all_done = FALSE
  /\ oexit = None
  /\ waited = 0
  /\ telapsed = 0
  /\ interrupts = 0

\* the Orchestrator starts without --log_dir
InitOrch == OrchStart /\ log_dir = None

\* the Orchestrator starts with or without --log_dir
InitOrchLog == OrchStart /\ log_dir \in LogDirs

\* where the output of worker w goes. manager: log_dir/worker_<w>.log, with
\* "worker_logs" for a missing option; pipeline: stdout=None, stderr=None, the
\* streams inherited from the pipeline process, whatever --log_dir says
Sink(w) ==
  IF orch = "manager"
    THEN <<"file", IF log_dir = None THEN "worker_logs" ELSE log_dir[1], w>>
    ELSE <<"inherited">>

\* for worker_id in range(max_workers): open the log, Popen, append
SpawnWorker ==
  /\ UNCHANGED wvars
  /\ opc = "spawn" /\ oi < max_workers
  /\ proc' = [proc EXCEPT ![oi] = "running"]
  /\ logf' = [logf EXCEPT ![oi] = IF orch = "manager" THEN "open" ELSE "none"]
  /\ workers' = workers + 1
  /\ oi' = oi + 1
  /\ UNCHANGED <<pvars, orch, max_workers, opc, code, termSent, killSent, failed,
                 all_done, oexit, waited, telapsed, interrupts>>

\* failed = False; while True: all_done = True; for ... in workers:
StartMonitor ==
  /\ UNCHANGED wvars
  /\ opc = "spawn" /\ oi >= max_workers
  /\ failed' = "false"
  /\ all_done' = TRUE
  /\ opc' = "poll"
  /\ oi' = 0
  /\ UNCHANGED <<pvars, orch, max_workers, workers, proc, code, termSent, killSent,
                 logf, oexit, waited, telapsed, interrupts>>

\* body of the for loop of the monitor: one proc.poll()
PollWorker ==
  /\ UNCHANGED wvars
  /\ opc = "poll" /\ oi < workers /\ failed = "false"
  /\ IF ReturnCode(oi) = None
       THEN all_done' = FALSE /\ oi' = oi + 1 /\ UNCHANGED failed
       ELSE IF ReturnCode(oi) # <<0>>
              THEN failed' = "true" /\ UNCHANGED <<all_done, oi>>   \* break
              ELSE oi' = oi + 1 /\ UNCHANGED <<failed, all_done>>
  /\ UNCHANGED <<pvars, orch, max_workers, opc, workers, proc, code, termSent,
                 killSent, logf, oexit, waited, telapsed, interrupts>>

\* after the for loop: if failed: break / if all_done: break / time.sleep(1)
LoopCheck ==
  /\ UNCHANGED wvars
  /\ opc = "poll" /\ (oi >= workers \/ failed = "true")
  /\ opc' = IF failed = "true" THEN "term"
            ELSE IF all_done THEN (IF orch = "manager" THEN "close"
                                                       ELSE "index_done")
            ELSE "sleep"
  /\ oi' = 0
  /\ UNCHANGED <<pvars, orch, max_workers, workers, proc, code, termSent, killSent,
                 logf, failed, all_done, oexit, waited, telapsed, interrupts>>

\* time.sleep(1) is over: next round of the while loop
Sleep ==
  /\ UNCHANGED wvars
  /\ opc = "sleep"
  /\ opc' = "poll"
  /\ oi' = 0
  /\ all_done' = TRUE
  /\ UNCHANGED <<pvars, orch, max_workers, workers, proc, code, termSent, killSent,
                 logf, failed, oexit, waited, telapsed, interrupts>>

\* the handle of worker w is closed by the manager (the pipeline has none)
Closed(lf, w) == [lf EXCEPT ![w] = IF lf[w] = "open" THEN "closed" ELSE lf[w]]

\* a termination loop that signals but neither waits for nor kills the worker
TerminateWorkerNoWait ==
  /\ UNCHANGED wvars
  /\ opc = "term" /\ oi < workers
  /\ termSent' = [termSent EXCEPT ![oi] = (ReturnCode(oi) = None)]
  /\ logf' = Closed(logf, oi)
  /\ oi' = oi + 1
  /\ UNCHANGED <<pvars, orch, max_workers, opc, workers, proc, code, killSent, failed,
                 all_done, oexit, waited, telapsed, interrupts>>

\* a termination loop that signals every worker, exited or not
TerminateWorkerAll ==
  /\ UNCHANGED wvars
  /\ opc = "term" /\ oi < workers
  /\ termSent' = [termSent EXCEPT ![oi] = TRUE]
  /\ opc' = "wait"
  /\ waited' = 0
  /\ UNCHANGED <<pvars, orch, max_workers, oi, workers, proc, code, killSent,
                 logf, failed, all_done, oexit, telapsed, interrupts>>

\* termination loop body: if proc.poll() is None: proc.terminate(), wait
TerminateWorker ==
  /\ UNCHANGED wvars
  /\ opc = "term" /\ oi < workers
  /\ IF ReturnCode(oi) = None
       THEN /\ termSent' = [termSent EXCEPT ![oi] = TRUE]
            /\ opc' = "wait"
            /\ waited' = 0
            /\ UNCHANGED <<oi, logf>>
       ELSE /\ logf' = Closed(logf, oi)
            /\ oi' = oi + 1
            /\ UNCHANGED <<termSent, opc, waited>>
  /\ UNCHANGED <<pvars, orch, max_workers, workers, proc, code, killSent, failed,
                 all_done, oexit, telapsed, interrupts>>

\* proc.wait(timeout=5) returns because the worker has exited
WaitReturn ==
  /\ UNCHANGED wvars
  /\ opc = "wait" /\ proc[oi] = "exited"
  /\ logf' = Closed(logf, oi)
  /\ oi' = oi + 1
  /\ opc' = "term"
  /\ UNCHANGED <<pvars, orch, max_workers, workers, proc, code, termSent, killSent,
                 failed, all_done, oexit, waited, telapsed, interrupts>>

\* one time unit passes while the Orchestrator is blocked in proc.wait
Tick ==
  /\ UNCHANGED wvars
  /\ opc = "wait" /\ proc[oi] = "running" /\ waited < Grace
  /\ waited' = waited + 1
  /\ telapsed' = telapsed + 1
  /\ UNCHANGED <<pvars, orch, max_workers, opc, oi, workers, proc, code, termSent,
                 killSent, logf, failed, all_done, oexit, interrupts>>

\* a wait without timeout: the Orchestrator stays blocked in proc.wait()
WaitBlocked ==
  /\ opc = "wait" /\ proc[oi] = "running" /\ waited = Grace
  /\ UNCHANGED vars

\* subprocess.TimeoutExpired: proc.kill()
WaitTimeout ==
  /\ UNCHANGED wvars
  /\ opc = "wait" /\ proc[oi] = "running" /\ waited = Grace
  /\ killSent' = [killSent EXCEPT ![oi] = TRUE]
  /\ proc' = [proc EXCEPT ![oi] = "exited"]
  /\ code' = [code EXCEPT ![oi] = <<-SIGKILL>>]
  /\ logf' = Closed(logf, oi)
  /\ oi' = oi + 1
  /\ opc' = "term"
  /\ UNCHANGED <<pvars, orch, max_workers, workers, termSent, failed, all_done,
                 oexit, waited, telapsed, interrupts>>

\* end of the termination loop: sys.exit(1)
ExitAfterTermination ==
  /\ UNCHANGED wvars
  /\ opc = "term" /\ oi >= workers
  /\ opc' = "exited"
  /\ oexit' = <<ExitFailed>>
  /\ UNCHANGED <<pvars, orch, max_workers, oi, workers, proc, code, termSent,
                 killSent, logf, failed, all_done, waited, telapsed,
                 interrupts>>

\* finally/else of the manager: close every handle, return, exit status 0
CloseAndReturn ==
  /\ UNCHANGED wvars
  /\ opc = "close"
  /\ logf' = [w \in WorkerIds |-> IF logf[w] = "open" THEN "closed" ELSE logf[w]]
  /\ opc' = "exited"
  /\ oexit' = <<0>>
  /\ UNCHANGED <<pvars, orch, max_workers, oi, workers, proc, code, termSent,
                 killSent, failed, all_done, waited, telapsed, interrupts>>

\* a worker process ends: by itself, by an outside signal, or by the SIGTERM
\* the Orchestrator sent
WorkerExit(w) ==
  /\ UNCHANGED wvars
  /\ proc[w] = "running"
  /\ opc # "exited"
  /\ \E c \in OwnExitCodes \cup (IF termSent[w] THEN {-SIGTERM} ELSE {}) :
        code' = [code EXCEPT ![w] = <<c>>]
  /\ proc' = [proc EXCEPT ![w] = "exited"]
  /\ UNCHANGED <<pvars, orch, max_workers, opc, oi, workers, termSent, killSent,
                 logf, failed, all_done, oexit, waited, telapsed, interrupts>>

\* KeyboardInterrupt raised in the Orchestrator at its current position.
\* manager : inside try (spawn, monitor) -> except: failed = True -> finally;
\*           inside finally -> leaves run_parallel_indexing uncaught.
\* pipeline: inside the try/bare-except around proc.wait -> proc.kill();
\*           anywhere else -> finally: pass, leaves main uncaught.
Interrupt ==
  /\ UNCHANGED wvars
  /\ opc \notin {"exited", "index_done"}
  /\ interrupts < MaxInterrupts
  /\ interrupts' = interrupts + 1
  /\ IF orch = "manager" /\ opc \in {"spawn", "poll", "sleep"}
       THEN /\ failed' = "true"
            /\ opc' = "term"
            /\ oi' = 0
            /\ UNCHANGED <<proc, code, killSent, oexit>>
       ELSE IF orch = "pipeline" /\ opc = "wait"
         THEN /\ killSent' = [killSent EXCEPT ![oi] = TRUE]
              /\ proc' = [proc EXCEPT ![oi] = "exited"]
              /\ code' = [code EXCEPT ![oi] =
                            IF proc[oi] = "running" THEN <<-SIGKILL>> ELSE code[oi]]
              /\ oi' = oi + 1
              /\ opc' = "term"
              /\ UNCHANGED <<failed, oexit>>
         ELSE /\ opc' = "exited"
              /\ oexit' = <<ExitUncaughtInterrupt>>
              /\ UNCHANGED <<failed, oi, proc, code, killSent>>
  /\ UNCHANGED <<pvars, orch, max_workers, workers, termSent, logf, all_done,
                 waited, telapsed>>

\* open(log_file, 'w') or subprocess.Popen raises while worker oi is being
\* started. manager: the exception is no KeyboardInterrupt, the finally block
\* reads failed, which is not bound yet: UnboundLocalError leaves the function.
\* pipeline: finally: pass. Both end with a traceback and exit status 1.
SpawnError ==
  /\ UNCHANGED wvars
  /\ opc = "spawn" /\ oi < max_workers
  /\ \E call \in {"open", "popen"} :
        /\ call = "open" => orch = "manager"
        /\ logf' = IF orch = "manager" /\ call = "popen"
                     THEN [logf EXCEPT ![oi] = "open"]
                     ELSE logf
  /\ opc' = "exited"
  /\ oexit' = <<ExitFailed>>
  /\ UNCHANGED <<pvars, orch, max_workers, oi, workers, proc, code, termSent,
                 killSent, failed, all_done, waited, telapsed, interrupts>>

OrchStep ==
  \/ SpawnWorker
  \/ StartMonitor
  \/ PollWorker
  \/ LoopCheck
  \/ Sleep
  \/ TerminateWorker
  \/ WaitReturn
  \/ WaitTimeout
  \/ ExitAfterTermination
  \/ CloseAndReturn

NextOrch ==
  \/ OrchStep
  \/ Tick
  \/ \E w \in WorkerIds : WorkerExit(w)

NextOrchInt ==
  \/ NextOrch
  \/ Interrupt

NextOrchSpawn ==
  \/ NextOrch
  \/ SpawnError

\* Orchestrator and workers, no external interrupt
SpecOrch == InitOrch /\ [][NextOrch]_vars

\* the Orchestrator process is scheduled and time passes
FairSpecOrch == SpecOrch /\ WF_vars(OrchStep) /\ WF_vars(Tick)

\* Orchestrator and workers with external interrupts
SpecOrchInt == InitOrch /\ [][NextOrchInt]_vars

\* Orchestrator and workers, with and without --log_dir
SpecOrchLog == InitOrchLog /\ [][NextOrch]_vars

\* Orchestrator and workers where starting a worker can fail
SpecOrchSpawn == InitOrch /\ [][NextOrchSpawn]_vars

\* the pipeline starts: args.max_workers > 1 takes the parallel branch, any
\* other value runs one indexing process through run_command
InitPipeline ==
  /\ WorkersIdle
  /\ PipeIdle
  /\ orch = "pipeline"
  /\ max_workers \in 0 .. MaxWorkers
  /\ opc = IF max_workers > 1 THEN "spawn" ELSE "single"
  /\ oi = 0
  /\ workers = 0
  /\ proc = [w \in WorkerIds |-> "unspawned"]
  /\ code = [w \in WorkerIds |-> None]
  /\ termSent = [w \in WorkerIds |-> FALSE]
  /\ killSent = [w \in WorkerIds |-> FALSE]
  /\ logf = [w \in WorkerIds |-> "none"]
  /\ failed = "unbound"
  /\ all_done = FALSE
  /\ oexit = None
  /\ waited = 0
  /\ telapsed = 0
  /\ interrupts = 0
  /\ log_dir = None

\* print("All workers completed successfully"); timings['indexing'] = ...
IndexDone ==
  /\ UNCHANGED wvars
  /\ orch = "pipeline" /\ opc = "index_done"
  /\ stage' = stage + 1
  /\ opc' = "next"
  /\ UNCHANGED <<cvars, log_dir, stage_st, pipe_meta, orch, max_workers, oi, workers,
                 proc, code, termSent, killSent, logf, failed, all_done, oexit,
                 waited, telapsed, interrupts>>

\* run_command: subprocess.run(cmd) starts the process of the current stage
RunCommand ==
  /\ UNCHANGED wvars
  /\ orch = "pipeline" /\ opc \in {"single", "next"} /\ stage <= Len(StageNames)
  /\ stage_st' = [stage_st EXCEPT ![stage] = "running"]
  /\ opc' = "run"
  /\ UNCHANGED <<cvars, log_dir, stage, pipe_meta, orch, max_workers, oi, workers,
                 proc, code, termSent, killSent, logf, failed, all_done, oexit,
                 waited, telapsed, interrupts>>

\* a run_command that goes on to the next stage whatever the return code
CommandExitIgnore(c) ==
  /\ UNCHANGED wvars
  /\ orch = "pipeline" /\ opc = "run"
  /\ stage_st' = [stage_st EXCEPT ![stage] = IF c # 0 THEN "failed" ELSE "ok"]
  /\ stage' = stage + 1
  /\ opc' = "next"
  /\ UNCHANGED <<cvars, log_dir, pipe_meta, orch, max_workers, oi, workers, proc, code,
                 termSent, killSent, logf, failed, all_done, oexit, waited,
                 telapsed, interrupts>>

\* run_command: subprocess.run returns with return code c;
\* if result.returncode != 0: sys.exit(1), else return to main
CommandExit(c) ==
  /\ UNCHANGED wvars
  /\ orch = "pipeline" /\ opc = "run"
  /\ IF c # 0
       THEN /\ stage_st' = [stage_st EXCEPT ![stage] = "failed"]
            /\ opc' = "exited"
            /\ oexit' = <<ExitFailed>>
            /\ UNCHANGED stage
       ELSE /\ stage_st' = [stage_st EXCEPT ![stage] = "ok"]
            /\ stage' = stage + 1
            /\ opc' = "next"
            /\ UNCHANGED oexit
  /\ UNCHANGED <<cvars, log_dir, pipe_meta, orch, max_workers, oi, workers, proc, code,
                 termSent, killSent, logf, failed, all_done, waited, telapsed,
                 interrupts>>

\* after STEP 4: json.dump(metadata, pipeline_metadata_output), summary, end
WritePipelineMetadata ==
  /\ UNCHANGED wvars
  /\ orch = "pipeline" /\ opc = "next" /\ stage > Len(StageNames)
  /\ pipe_meta' = TRUE
  /\ opc' = "exited"
  /\ oexit' = <<0>>
  /\ UNCHANGED <<cvars, log_dir, stage, stage_st, orch, max_workers, oi, workers, proc,
                 code, termSent, killSent, logf, failed, all_done, waited,
                 telapsed, interrupts>>

PipelineStep ==
  \/ SpawnWorker
  \/ StartMonitor
  \/ PollWorker
  \/ LoopCheck
  \/ Sleep
  \/ TerminateWorker
  \/ WaitReturn
  \/ WaitTimeout
  \/ ExitAfterTermination
  \/ IndexDone
  \/ RunCommand
  \/ WritePipelineMetadata

NextPipeline ==
  \/ PipelineStep
  \/ Tick
  \/ \E w \in WorkerIds : WorkerExit(w)
  \/ \E c \in OwnExitCodes : CommandExit(c)

\* the full pipeline: indexing (parallel or single) and the three later stages
SpecPipeline == InitPipeline /\ [][NextPipeline]_vars

\* ------------------------------------------------------------ Part II: Worker
\* Strings the code inspects are sequences of characters.
UpperCase == <<"A","B","C","D","E","F","G","H","I","J","K","L","M",
               "N","O","P","Q","R","S","T","U","V","W","X","Y","Z">>
LowerCase == <<"a","b","c","d","e","f","g","h","i","j","k","l","m",
               "n","o","p","q","r","s","t","u","v","w","x","y","z">>

\* str.lower()
StrLower(str) ==
  [i \in 1 .. Len(str) |->
     IF \E k \in 1 .. 26 : UpperCase[k] = str[i]
       THEN LowerCase[CHOOSE k \in 1 .. 26 : UpperCase[k] = str[i]]
       ELSE str[i]]

\* pat in str
Contains(str, pat) ==
  \E i \in 1 .. (Len(str) - Len(pat) + 1) :
     SubSeq(str, i, i + Len(pat) - 1) = pat

FatalPatterns ==
  { <<"5","0","0">>,
    <<"c","o","n","n","e","c","t","i","o","n">>,
    <<"i","n","t","e","r","n","a","l"," ","s","e","r","v","e","r">> }

\* a fail-fast test that forgets the "500" pattern
IsFatalNo500(msg) ==
  \E pat \in FatalPatterns \ {<<"5","0","0">>} : Contains(StrLower(msg), pat)

\* error_msg = str(e).lower(); "500" in error_msg or "connection" in ... or ...
IsFatal(msg) == \E pat \in FatalPatterns : Contains(StrLower(msg), pat)

\* messages of the exceptions the external services raise
ServiceErrors ==
  { <<"H","T","T","P"," ","5","0","0">>,
    <<"C","o","n","n","e","c","t","i","o","n"," ","r","e","f","u","s","e","d">>,
    <<"I","n","t","e","r","n","a","l"," ","S","e","r","v","e","r"," ","E","r","r","o","r">>,
    <<"r","a","t","e"," ","l","i","m","i","t">> }

\* messages of the OSErrors the checkpoint file operations raise
FileErrors == { <<"N","o"," ","s","p","a","c","e"," ","l","e","f","t">> }

Timestamps == {"t1"}

\* what extract_turns returns for a conversation: the turns' timestamps
TurnLists == UNION {[1 .. n -> Timestamps] : n \in 0 .. MaxTurns}

\* conversations without a conv_id field (conv_id = <<>>)
PlainItems == [conv_id : {<<>>}, turns : TurnLists]

Datasets == UNION {[1 .. n -> PlainItems] : n \in 0 .. MaxItems}

\* a sharding check that lets a worker take the items of lower shards too
InShardUpTo(i, n, s) == ~(i % n > s)

\* Python's i % n for i >= 0 and n # 0: the result has the sign of n
PyMod(i, n) ==
  IF n > 0 THEN i % n
  ELSE IF i % (-n) = 0 THEN 0 ELSE (i % (-n)) + n

\* not (conv_idx % num_shards != shard_id)
InShard(i, n, s) == ~(PyMod(i, n) # s)

\* conversation.get("conv_id", f"conv_{conv_idx}"): the directory of item i
ConvDir(i) ==
  IF dataset[i + 1].conv_id = <<>> THEN i ELSE dataset[i + 1].conv_id[1]

Turns(i) == dataset[i + 1].turns

\* turn_key = f"{turn_idx}_{timestamp}"
TurnKey(t, ts) == <<t, ts>>

\* the keys of all turns of item i
AllKeys(i) == {TurnKey(t, Turns(i)[t + 1]) : t \in 0 .. (Len(Turns(i)) - 1)}

\* set(json.load(f)), or the empty set when the file is missing or unparsable
LoadProcessed(file) == IF file.st = "ok" THEN file.keys ELSE {}

\* the Checkpoint Record persisted in directory d
CheckpointRecord(d) == LoadProcessed(processed_file[d])

CurDir(s) == ConvDir(conv_idx[s])
CurKey(s) == TurnKey(turn_idx[s], Turns(conv_idx[s])[turn_idx[s] + 1])

\* the Orchestrator is not part of the run
OrchOff ==
  /\ orch = "manager" /\ max_workers = 0 /\ opc = "idle" /\ oi = 0
  /\ workers = 0
  /\ proc = [w \in WorkerIds |-> "unspawned"]
  /\ code = [w \in WorkerIds |-> None]
  /\ termSent = [w \in WorkerIds |-> FALSE]
  /\ killSent = [w \in WorkerIds |-> FALSE]
  /\ logf = [w \in WorkerIds |-> "none"]
  /\ failed = "unbound" /\ all_done = FALSE /\ oexit = None
  /\ waited = 0 /\ telapsed = 0 /\ interrupts = 0
  /\ log_dir = None /\ StagesIdle

OrchIdle == OrchOff /\ CompareIdle

\* the Workers of the shards in active start on an empty output directory
FreshRun ==
  /\ wpc = [x \in ShardIds |-> IF x \in active THEN "loop" ELSE "idle"]
  /\ wexit = [s \in ShardIds |-> None]
  /\ conv_idx = [s \in ShardIds |-> 0]
  /\ turn_idx = [s \in ShardIds |-> 0]
  /\ processed_turns = [s \in ShardIds |-> {}]
  /\ added_count = [s \in ShardIds |-> 0]
  /\ index_metadata = [s \in ShardIds |-> <<>>]
  /\ processed_file = [d \in Dirs |-> Absent]
  /\ completed_flag = [d \in Dirs |-> FALSE]
  /\ metadata_file = [d \in Dirs |-> None]
  /\ store = [d \in Dirs |-> [t \in TurnIds |-> 0]]
  /\ index_file = [s \in ShardIds |-> None]
  /\ restarts = 0
  /\ faults = 0
  /\ selected = [s \in ShardIds |-> {}]
  /\ committedEver = [d \in Dirs |-> {}]
  /\ softFailed = [s \in ShardIds |-> {}]
  /\ counted = [s \in ShardIds |-> {}]
  /\ fatalAt = [s \in ShardIds |-> None]
  /\ initFatal = [s \in ShardIds |-> {}]
  /\ corrupted = FALSE

\* one Worker is invoked with --num_shards N --shard_id s, 0 <= s < N
InitWorker ==
  /\ OrchIdle
  /\ num_shards \in 1 .. MaxShards
  /\ \E s \in 0 .. (num_shards - 1) : active = {s}
  /\ dataset \in Datasets
  /\ FreshRun

\* one Worker is invoked with a --num_shards that is zero or negative
InitBadShards ==
  /\ OrchIdle
  /\ num_shards \in (0 - MaxShards) .. 0
  /\ active = {0}
  /\ dataset \in Datasets
  /\ FreshRun

\* conversations with no turn or one turn
ShortItems == [conv_id : {<<>>}, turns : {<<>>} \cup [1 .. 1 -> Timestamps]]

\* for worker_id in range(max_workers): --num_shards max_workers --shard_id
\* worker_id: the Workers of all shards run side by side
InitSelect ==
  /\ OrchIdle
  /\ num_shards \in 1 .. MaxShards
  /\ active = 0 .. (num_shards - 1)
  /\ dataset \in UNION {[1 .. n -> ShortItems] : n \in 0 .. MaxSelItems}
  /\ FreshRun

\* conversations that may carry a conv_id field of their own: <<d>> is the
\* name that the default f"conv_{d}" of the item at index d gives as well
NamedItems == [conv_id : {<<>>} \cup {<<d>> : d \in 0 .. 1},
               turns : {<<>>} \cup [1 .. 1 -> Timestamps]]

\* the Workers of all shards run side by side on a dataset whose items may
\* carry a conv_id
InitShared ==
  /\ OrchIdle
  /\ num_shards \in 1 .. MaxShards
  /\ active = 0 .. (num_shards - 1)
  /\ dataset \in UNION {[1 .. n -> NamedItems] : n \in 0 .. MaxItems}
  /\ FreshRun

cfgvars == <<num_shards, active, dataset>>
fsvars == <<processed_file, completed_flag, metadata_file, store, index_file>>

\* a Worker that does not look at the Completion Flag
ToIndexNoFlag(s) ==
  /\ InShard(conv_idx[s], num_shards, s)
  /\ Len(Turns(conv_idx[s])) > 0

\* the item at conv_idx is one this worker has to index now
ToIndex(s) ==
  /\ InShard(conv_idx[s], num_shards, s)
  /\ Len(Turns(conv_idx[s])) > 0
  /\ ~completed_flag[CurDir(s)]

\* outer for loop: the item is another shard's, has no turns, or is completed
SkipItem(s) ==
  /\ s \in active /\ wpc[s] = "loop" /\ conv_idx[s] < Len(dataset)
  /\ num_shards # 0
  /\ ~ToIndex(s)
  /\ selected' = [selected EXCEPT ![s] =
                    IF InShard(conv_idx[s], num_shards, s)
                      THEN @ \cup {conv_idx[s]} ELSE @]
  /\ conv_idx' = [conv_idx EXCEPT ![s] = @ + 1]
  /\ UNCHANGED <<ovars, cfgvars, fsvars, wpc, wexit, turn_idx, processed_turns,
                 added_count, index_metadata, restarts, faults, committedEver,
                 softFailed, counted, fatalAt,
                 initFatal, corrupted>>

\* a Worker for which an unparsable processed_turns.json is fatal
StartEntityStrict(s) ==
  /\ s \in active /\ wpc[s] = "loop" /\ conv_idx[s] < Len(dataset)
  /\ num_shards # 0
  /\ ToIndex(s)
  /\ selected' = [selected EXCEPT ![s] = @ \cup {conv_idx[s]}]
  /\ processed_turns' = [processed_turns EXCEPT ![s] =
                           LoadProcessed(processed_file[CurDir(s)])]
  /\ added_count' = [added_count EXCEPT ![s] = 0]
  /\ turn_idx' = [turn_idx EXCEPT ![s] = 0]
  /\ IF processed_file[CurDir(s)].st = "corrupt"
       THEN /\ wpc' = [wpc EXCEPT ![s] = "exited"]
            /\ wexit' = [wexit EXCEPT ![s] = <<ExitFailed>>]
       ELSE /\ wpc' = [wpc EXCEPT ![s] = "turn"]
            /\ UNCHANGED wexit
  /\ softFailed' = [softFailed EXCEPT ![s] = {}]
  /\ counted' = [counted EXCEPT ![s] = {}]
  /\ UNCHANGED <<ovars, cfgvars, fsvars, conv_idx, index_metadata,
                 restarts, faults, committedEver, fatalAt, initFatal, corrupted>>

\* outer for loop: load processed_turns.json, create the memory system
StartEntity(s) ==
  /\ s \in active /\ wpc[s] = "loop" /\ conv_idx[s] < Len(dataset)
  /\ num_shards # 0
  /\ ToIndex(s)
  /\ selected' = [selected EXCEPT ![s] = @ \cup {conv_idx[s]}]
  /\ processed_turns' = [processed_turns EXCEPT ![s] =
                           LoadProcessed(processed_file[CurDir(s)])]
  /\ added_count' = [added_count EXCEPT ![s] = 0]
  /\ turn_idx' = [turn_idx EXCEPT ![s] = 0]
  /\ wpc' = [wpc EXCEPT ![s] = "turn"]
  /\ softFailed' = [softFailed EXCEPT ![s] = {}]
  /\ counted' = [counted EXCEPT ![s] = {}]
  /\ UNCHANGED <<ovars, cfgvars, fsvars, wexit, conv_idx, index_metadata,
                 restarts, faults, committedEver, fatalAt,
                 initFatal, corrupted>>

\* a Worker that exits with 1 when the memory initialisation raises an error
\* whose message matches the fatal patterns
MemoryInitErrorExit(s) ==
  /\ s \in active /\ wpc[s] = "loop" /\ conv_idx[s] < Len(dataset)
  /\ num_shards # 0
  /\ ToIndex(s)
  /\ faults < MaxFaults
  /\ faults' = faults + 1
  /\ selected' = [selected EXCEPT ![s] = @ \cup {conv_idx[s]}]
  /\ processed_turns' = [processed_turns EXCEPT ![s] =
                           LoadProcessed(processed_file[CurDir(s)])]
  /\ \E msg \in ServiceErrors :
        IF IsFatal(msg)
          THEN /\ wpc' = [wpc EXCEPT ![s] = "exited"]
               /\ wexit' = [wexit EXCEPT ![s] = <<ExitFailed>>]
               /\ UNCHANGED conv_idx
          ELSE /\ conv_idx' = [conv_idx EXCEPT ![s] = @ + 1]
               /\ UNCHANGED <<wpc, wexit>>
  /\ UNCHANGED <<ovars, cfgvars, fsvars, turn_idx, added_count, index_metadata,
                 restarts, committedEver, softFailed, counted, fatalAt,
                 initFatal, corrupted>>

\* AgenticMemorySystem(...) raises: except Exception of the outer try prints
\* the error, whatever its message, and continues with the next conversation
MemoryInitError(s) ==
  /\ s \in active /\ wpc[s] = "loop" /\ conv_idx[s] < Len(dataset)
  /\ num_shards # 0
  /\ ToIndex(s)
  /\ faults < MaxFaults
  /\ faults' = faults + 1
  /\ \E msg \in ServiceErrors :
        initFatal' = IF \E pat \in FatalPatterns : Contains(StrLower(msg), pat)
                       THEN [initFatal EXCEPT ![s] = @ \cup {conv_idx[s]}]
                       ELSE initFatal
  /\ selected' = [selected EXCEPT ![s] = @ \cup {conv_idx[s]}]
  /\ processed_turns' = [processed_turns EXCEPT ![s] =
                           LoadProcessed(processed_file[CurDir(s)])]
  /\ conv_idx' = [conv_idx EXCEPT ![s] = @ + 1]
  /\ UNCHANGED <<ovars, cfgvars, fsvars, wpc, wexit, turn_idx, added_count,
                 index_metadata, restarts, committedEver, softFailed, counted,
                 fatalAt, corrupted>>

\* an inner loop that processes every turn, recorded in the checkpoint or not
NextTurnNoSkip(s) ==
  /\ s \in active /\ wpc[s] = "turn"
  /\ IF turn_idx[s] >= Len(Turns(conv_idx[s]))
       THEN wpc' = [wpc EXCEPT ![s] = "meta"]
       ELSE wpc' = [wpc EXCEPT ![s] = "add"]
  /\ UNCHANGED <<ovars, cfgvars, fsvars, wexit, conv_idx, turn_idx,
                 processed_turns, added_count, index_metadata, restarts, faults,
                 selected, committedEver, softFailed, counted, fatalAt,
                 initFatal, corrupted>>

\* inner for loop header: end of the turns, a processed turn, or a new turn
NextTurn(s) ==
  /\ s \in active /\ wpc[s] = "turn"
  /\ IF turn_idx[s] >= Len(Turns(conv_idx[s]))
       THEN wpc' = [wpc EXCEPT ![s] = "meta"] /\ UNCHANGED turn_idx
       ELSE IF CurKey(s) \in processed_turns[s]
              THEN turn_idx' = [turn_idx EXCEPT ![s] = @ + 1] /\ UNCHANGED wpc
              ELSE wpc' = [wpc EXCEPT ![s] = "add"] /\ UNCHANGED turn_idx
  /\ UNCHANGED <<ovars, cfgvars, fsvars, wexit, conv_idx, processed_turns,
                 added_count, index_metadata, restarts, faults, selected,
                 committedEver, softFailed, counted, fatalAt,
                 initFatal, corrupted>>

\* a handler that tries the same turn again after a soft failure
HandleUnitErrorRetry(s, msg) ==
  /\ faults < MaxFaults
  /\ faults' = faults + 1
  /\ fatalAt' = IF \E pat \in FatalPatterns : Contains(StrLower(msg), pat)
                  THEN [fatalAt EXCEPT ![s] =
                          <<[conv |-> conv_idx[s], turn |-> turn_idx[s],
                             rec |-> CheckpointRecord(CurDir(s))]>>]
                  ELSE fatalAt
  /\ IF IsFatal(msg)
       THEN /\ wpc' = [wpc EXCEPT ![s] = "exited"]
            /\ wexit' = [wexit EXCEPT ![s] = <<ExitFailed>>]
            /\ UNCHANGED <<turn_idx, softFailed>>
       ELSE /\ wpc' = [wpc EXCEPT ![s] = "turn"]
            /\ softFailed' = [softFailed EXCEPT ![s] = @ \cup {turn_idx[s]}]
            /\ UNCHANGED <<wexit, turn_idx>>

\* except Exception as e of the inner try: sys.exit(1) on a fatal message,
\* otherwise print and continue with the next turn
HandleUnitError(s, msg) ==
  /\ faults < MaxFaults
  /\ faults' = faults + 1
  /\ fatalAt' = IF \E pat \in FatalPatterns : Contains(StrLower(msg), pat)
                  THEN [fatalAt EXCEPT ![s] =
                          <<[conv |-> conv_idx[s], turn |-> turn_idx[s],
                             rec |-> CheckpointRecord(CurDir(s))]>>]
                  ELSE fatalAt
  /\ IF IsFatal(msg)
       THEN /\ wpc' = [wpc EXCEPT ![s] = "exited"]
            /\ wexit' = [wexit EXCEPT ![s] = <<ExitFailed>>]
            /\ UNCHANGED <<turn_idx, softFailed>>
       ELSE /\ wpc' = [wpc EXCEPT ![s] = "turn"]
            /\ turn_idx' = [turn_idx EXCEPT ![s] = @ + 1]
            /\ softFailed' = [softFailed EXCEPT ![s] = @ \cup {turn_idx[s]}]
            /\ UNCHANGED wexit

\* memory_system.add_note(...); added_count += 1
AddNote(s) ==
  /\ s \in active /\ wpc[s] = "add"
  /\ added_count' = [added_count EXCEPT ![s] = @ + 1]
  /\ counted' = [counted EXCEPT ![s] = @ \cup {turn_idx[s]}]
  /\ wpc' = [wpc EXCEPT ![s] = "ckpt_open"]
  /\ UNCHANGED <<ovars, cfgvars, fsvars, wexit, conv_idx, turn_idx,
                 processed_turns, index_metadata, restarts, faults, selected,
                 committedEver, softFailed, fatalAt,
                 initFatal, corrupted>>

\* memory_system.add_note(...) raises
AddNoteError(s) ==
  /\ s \in active /\ wpc[s] = "add"
  /\ \E msg \in ServiceErrors : HandleUnitError(s, msg)
  /\ UNCHANGED <<ovars, cfgvars, fsvars, conv_idx, processed_turns, added_count,
                 index_metadata, restarts, selected, committedEver, counted, initFatal, corrupted>>

\* processed_turns.add(turn_key); open(processed_turns_file, 'w') truncates
CheckpointOpen(s) ==
  /\ s \in active /\ wpc[s] = "ckpt_open"
  /\ processed_turns' = [processed_turns EXCEPT ![s] = @ \cup {CurKey(s)}]
  /\ processed_file' = [processed_file EXCEPT ![CurDir(s)] =
                          [st |-> "corrupt", keys |-> {}]]
  /\ wpc' = [wpc EXCEPT ![s] = "ckpt_dump"]
  /\ UNCHANGED <<ovars, cfgvars, completed_flag, metadata_file, store,
                 index_file, wexit, conv_idx, turn_idx, added_count,
                 index_metadata, restarts, faults, selected, committedEver,
                 softFailed, counted, fatalAt,
                 initFatal, corrupted>>

\* processed_turns.add(turn_key); open(processed_turns_file, 'w') raises
CheckpointOpenError(s) ==
  /\ s \in active /\ wpc[s] = "ckpt_open"
  /\ processed_turns' = [processed_turns EXCEPT ![s] = @ \cup {CurKey(s)}]
  /\ \E msg \in FileErrors : HandleUnitError(s, msg)
  /\ UNCHANGED <<ovars, cfgvars, fsvars, conv_idx, added_count, index_metadata,
                 restarts, selected, committedEver, counted, initFatal, corrupted>>

\* json.dump(list(processed_turns), f) and the close of the with block
CheckpointDump(s) ==
  /\ s \in active /\ wpc[s] = "ckpt_dump"
  /\ processed_file' = [processed_file EXCEPT ![CurDir(s)] =
                          [st |-> "ok", keys |-> processed_turns[s]]]
  /\ committedEver' = [committedEver EXCEPT ![CurDir(s)] =
                         @ \cup processed_turns[s]]
  /\ wpc' = [wpc EXCEPT ![s] = "persist"]
  /\ UNCHANGED <<ovars, cfgvars, completed_flag, metadata_file, store,
                 index_file, wexit, conv_idx, turn_idx, processed_turns,
                 added_count, index_metadata, restarts, faults, selected,
                 softFailed, counted, fatalAt,
                 initFatal, corrupted>>

\* json.dump or the flush at close raises: the file stays truncated
CheckpointDumpError(s) ==
  /\ s \in active /\ wpc[s] = "ckpt_dump"
  /\ \E msg \in FileErrors : HandleUnitError(s, msg)
  /\ corrupted' = TRUE
  /\ UNCHANGED <<ovars, cfgvars, fsvars, conv_idx, processed_turns, added_count,
                 index_metadata, restarts, selected, committedEver, counted,
                 initFatal>>

\* persistent_collection.add(...) of the note just added
PersistNote(s) ==
  /\ s \in active /\ wpc[s] = "persist"
  /\ store' = [store EXCEPT ![CurDir(s)][turn_idx[s]] = @ + 1]
  /\ turn_idx' = [turn_idx EXCEPT ![s] = @ + 1]
  /\ wpc' = [wpc EXCEPT ![s] = "turn"]
  /\ UNCHANGED <<ovars, cfgvars, processed_file, completed_flag, metadata_file,
                 index_file, wexit, conv_idx, processed_turns, added_count,
                 index_metadata, restarts, faults, selected, committedEver,
                 softFailed, counted, fatalAt,
                 initFatal, corrupted>>

\* chromadb.PersistentClient / get_or_create_collection / add raises
PersistError(s) ==
  /\ s \in active /\ wpc[s] = "persist"
  /\ \E msg \in ServiceErrors : HandleUnitError(s, msg)
  /\ UNCHANGED <<ovars, cfgvars, fsvars, conv_idx, processed_turns, added_count,
                 index_metadata, restarts, selected, committedEver, counted, initFatal, corrupted>>

\* a Worker that appends the metadata to its list without writing the file
WriteMetadataListOnly(s) ==
  /\ s \in active /\ wpc[s] = "meta"
  /\ index_metadata' = [index_metadata EXCEPT ![s] = Append(@, CurDir(s))]
  /\ wpc' = [wpc EXCEPT ![s] = "flag"]
  /\ UNCHANGED <<ovars, cfgvars, fsvars, wexit, conv_idx, turn_idx,
                 processed_turns, added_count, restarts, faults, selected,
                 committedEver, softFailed, counted, fatalAt, initFatal, corrupted>>

\* json.dump(metadata, memory_metadata.json); index_metadata.append(metadata)
WriteMetadata(s) ==
  /\ s \in active /\ wpc[s] = "meta"
  /\ metadata_file' = [metadata_file EXCEPT ![CurDir(s)] =
                         <<[num_turns |-> Len(Turns(conv_idx[s])),
                            num_indexed |-> added_count[s]]>>]
  /\ index_metadata' = [index_metadata EXCEPT ![s] = Append(@, CurDir(s))]
  /\ wpc' = [wpc EXCEPT ![s] = "flag"]
  /\ UNCHANGED <<ovars, cfgvars, processed_file, completed_flag, store,
                 index_file, wexit, conv_idx, turn_idx, processed_turns,
                 added_count, restarts, faults, selected, committedEver,
                 softFailed, counted, fatalAt,
                 initFatal, corrupted>>

\* open(completed_flag, 'w').write(now); next conversation
WriteFlag(s) ==
  /\ s \in active /\ wpc[s] = "flag"
  /\ completed_flag' = [completed_flag EXCEPT ![CurDir(s)] = TRUE]
  /\ conv_idx' = [conv_idx EXCEPT ![s] = @ + 1]
  /\ wpc' = [wpc EXCEPT ![s] = "loop"]
  /\ UNCHANGED <<ovars, cfgvars, processed_file, metadata_file, store,
                 index_file, wexit, turn_idx, processed_turns, added_count,
                 index_metadata, restarts, faults, selected, committedEver,
                 softFailed, counted, fatalAt,
                 initFatal, corrupted>>

\* after the outer loop: write index_metadata_<shard_id>.json, return, exit 0
FinishRun(s) ==
  /\ s \in active /\ wpc[s] = "loop" /\ conv_idx[s] >= Len(dataset)
  /\ index_file' = [index_file EXCEPT ![s] = <<index_metadata[s]>>]
  /\ wpc' = [wpc EXCEPT ![s] = "exited"]
  /\ wexit' = [wexit EXCEPT ![s] = <<0>>]
  /\ UNCHANGED <<ovars, cfgvars, processed_file, completed_flag, metadata_file,
                 store, conv_idx, turn_idx, processed_turns, added_count,
                 index_metadata, restarts, faults, selected, committedEver,
                 softFailed, counted, fatalAt,
                 initFatal, corrupted>>

\* the process is killed (SIGKILL, SIGTERM of the kill-all, power loss): its
\* memory is lost, the files stay as they are
Crash(s) ==
  /\ s \in active /\ wpc[s] \notin {"idle", "exited", "crashed"}
  /\ restarts < MaxRestarts
  /\ faults < MaxFaults
  /\ faults' = faults + 1
  /\ wpc' = [wpc EXCEPT ![s] = "crashed"]
  /\ wexit' = [wexit EXCEPT ![s] = <<-SIGKILL>>]
  /\ conv_idx' = [conv_idx EXCEPT ![s] = 0]
  /\ turn_idx' = [turn_idx EXCEPT ![s] = 0]
  /\ processed_turns' = [processed_turns EXCEPT ![s] = {}]
  /\ added_count' = [added_count EXCEPT ![s] = 0]
  /\ index_metadata' = [index_metadata EXCEPT ![s] = <<>>]
  /\ softFailed' = [softFailed EXCEPT ![s] = {}]
  /\ counted' = [counted EXCEPT ![s] = {}]
  /\ selected' = [selected EXCEPT ![s] = {}]
  /\ corrupted' = (corrupted \/ wpc[s] = "ckpt_dump")
  /\ UNCHANGED <<ovars, cfgvars, fsvars, restarts, committedEver, fatalAt,
                 initFatal>>

\* the Worker is invoked again with identical arguments
Restart(s) ==
  /\ s \in active /\ wpc[s] \in {"exited", "crashed"}
  /\ restarts < MaxRestarts
  /\ restarts' = restarts + 1
  /\ wpc' = [wpc EXCEPT ![s] = "loop"]
  /\ wexit' = [wexit EXCEPT ![s] = None]
  /\ conv_idx' = [conv_idx EXCEPT ![s] = 0]
  /\ turn_idx' = [turn_idx EXCEPT ![s] = 0]
  /\ processed_turns' = [processed_turns EXCEPT ![s] = {}]
  /\ added_count' = [added_count EXCEPT ![s] = 0]
  /\ index_metadata' = [index_metadata EXCEPT ![s] = <<>>]
  /\ selected' = [selected EXCEPT ![s] = {}]
  /\ softFailed' = [softFailed EXCEPT ![s] = {}]
  /\ counted' = [counted EXCEPT ![s] = {}]
  /\ fatalAt' = [fatalAt EXCEPT ![s] = None]
  /\ initFatal' = [initFatal EXCEPT ![s] = {}]
  /\ UNCHANGED <<ovars, cfgvars, fsvars, faults, committedEver, corrupted>>

\* conv_idx % num_shards with num_shards = 0: ZeroDivisionError, outside every
\* try block: traceback, exit status 1
ShardCheckError(s) ==
  /\ s \in active /\ wpc[s] = "loop" /\ conv_idx[s] < Len(dataset)
  /\ num_shards = 0
  /\ wpc' = [wpc EXCEPT ![s] = "exited"]
  /\ wexit' = [wexit EXCEPT ![s] = <<ExitFailed>>]
  /\ UNCHANGED <<ovars, cfgvars, fsvars, conv_idx, turn_idx, processed_turns,
                 added_count, index_metadata, restarts, faults, selected,
                 committedEver, softFailed, counted, fatalAt, initFatal, corrupted>>

WorkerStep(s) ==
  \/ SkipItem(s)
  \/ StartEntity(s)
  \/ NextTurn(s)
  \/ AddNote(s)
  \/ CheckpointOpen(s)
  \/ CheckpointDump(s)
  \/ PersistNote(s)
  \/ WriteMetadata(s)
  \/ WriteFlag(s)
  \/ FinishRun(s)

WorkerFault(s) ==
  \/ MemoryInitError(s)
  \/ AddNoteError(s)
  \/ CheckpointOpenError(s)
  \/ CheckpointDumpError(s)
  \/ PersistError(s)

NextWorker ==
  \E s \in ShardIds :
     \/ WorkerStep(s)
     \/ WorkerFault(s)
     \/ Crash(s)
     \/ Restart(s)

\* one Worker process (shard_id, num_shards), its faults, crashes and re-runs
SpecWorker == InitWorker /\ [][NextWorker]_vars

NextSelect == \E s \in ShardIds : WorkerStep(s)

\* the Workers of all shards of one job, side by side, without faults
SpecSelect == InitSelect /\ [][NextSelect]_vars

NextBadShards == \E s \in ShardIds : WorkerStep(s) \/ ShardCheckError(s)

\* one Worker invoked with a non-positive shard count
SpecBadShards == InitBadShards /\ [][NextBadShards]_vars

\* the same Workers on datasets whose items may carry a conv_id
SpecShared == InitShared /\ [][NextSelect]_vars

\* ------------------------------------- Part III: the two monitors side by side
\* Each monitor loop is a step function on its local state c, one step per
\* call it makes on a worker handle (poll, terminate, wait, kill) or sleep;
\* ws[w] is what poll() of worker w returns at that moment.

MaxRounds == 2

\* manager: after the for loop. if failed: break -> finally: if failed: ...;
\* if all_done: break -> finally: else: close the handles; time.sleep(1)
ManagerAfterFor(c) ==
  IF c.failed THEN [c EXCEPT !.pc = "term", !.i = 0]
  ELSE IF c.all_done THEN [c EXCEPT !.pc = "succeeded"]
  ELSE [c EXCEPT !.pc = "sleep"]

\* manager: next iteration of for proc, worker_id, _ in workers
ManagerNext(c) ==
  LET d == [c EXCEPT !.i = @ + 1]
  IN IF d.i < nw THEN d ELSE ManagerAfterFor(d)

\* manager: return_code = proc.poll() and the three branches
ManagerPoll(c, ws) ==
  IF ws[c.i] = None THEN ManagerNext([c EXCEPT !.all_done = FALSE])
  ELSE IF ws[c.i] # <<0>> THEN ManagerAfterFor([c EXCEPT !.failed = TRUE])
  ELSE ManagerNext(c)

\* manager: next iteration of the termination loop, sys.exit(1) after it
ManagerTermNext(c) ==
  LET d == [c EXCEPT !.i = @ + 1, !.pc = "term"]
  IN IF d.i < nw THEN d ELSE [d EXCEPT !.pc = "exited", !.exit = <<ExitFailed>>]

\* manager: if proc.poll() is None: proc.terminate(); proc.wait(timeout=5)
ManagerTerminate(c, ws) ==
  IF ws[c.i] = None
    THEN [c EXCEPT !.term = @ \cup {c.i}, !.pc = "wait", !.waited = 0]
    ELSE ManagerTermNext(c)

\* manager: proc.wait(timeout=5) returns, or TimeoutExpired: proc.kill()
ManagerWait(c, ws) ==
  IF ws[c.i] # None THEN ManagerTermNext(c)
  ELSE IF c.waited >= Grace THEN ManagerTermNext([c EXCEPT !.kill = @ \cup {c.i}])
  ELSE c

\* run_parallel_indexing from failed = False to its return or sys.exit(1)
ManagerMonitorStep(c, ws) ==
  CASE c.pc = "poll" -> ManagerPoll(c, ws)
    [] c.pc = "sleep" -> [c EXCEPT !.pc = "poll", !.i = 0, !.all_done = TRUE,
                                   !.round = @ + 1]
    [] c.pc = "term" -> ManagerTerminate(c, ws)
    [] c.pc = "wait" -> ManagerWait(c, ws)
    [] OTHER -> c

\* a pipeline that looks at all_done before it looks at failed
PipelineAfterForDoneFirst(c) ==
  IF c.all_done THEN [c EXCEPT !.pc = "succeeded"]
  ELSE IF c.failed THEN [c EXCEPT !.pc = "term", !.i = 0]
  ELSE [c EXCEPT !.pc = "sleep"]

\* pipeline: after the for loop. if failed or all_done: break; time.sleep(1);
\* after the while loop: if failed: ... sys.exit(1), else "All workers completed"
PipelineAfterFor(c) ==
  IF c.failed \/ c.all_done
    THEN IF c.failed THEN [c EXCEPT !.pc = "term", !.i = 0]
                     ELSE [c EXCEPT !.pc = "succeeded"]
    ELSE [c EXCEPT !.pc = "sleep"]

\* pipeline: next iteration of for proc, worker_id in index_processes
PipelineNext(c) ==
  LET d == [c EXCEPT !.i = @ + 1]
  IN IF d.i < nw THEN d ELSE PipelineAfterFor(d)

\* pipeline: ret = proc.poll(); if ret is None / elif ret != 0
PipelinePoll(c, ws) ==
  IF ws[c.i] = None THEN PipelineNext([c EXCEPT !.all_done = FALSE])
  ELSE IF ws[c.i] # <<0>> THEN PipelineAfterFor([c EXCEPT !.failed = TRUE])
  ELSE PipelineNext(c)

\* pipeline: next iteration of for proc, _ in index_processes, then sys.exit(1)
PipelineTermNext(c) ==
  LET d == [c EXCEPT !.i = @ + 1, !.pc = "term"]
  IN IF d.i < nw THEN d ELSE [d EXCEPT !.pc = "exited", !.exit = <<ExitFailed>>]

\* pipeline: if proc.poll() is None: proc.terminate(); proc.wait(timeout=5)
PipelineTerminate(c, ws) ==
  IF ws[c.i] = None
    THEN [c EXCEPT !.term = @ \cup {c.i}, !.pc = "wait", !.waited = 0]
    ELSE PipelineTermNext(c)

\* pipeline: proc.wait(timeout=5) returns, or except: proc.kill()
PipelineWait(c, ws) ==
  IF ws[c.i] # None THEN PipelineTermNext(c)
  ELSE IF c.waited >= Grace THEN PipelineTermNext([c EXCEPT !.kill = @ \cup {c.i}])
  ELSE c

\* the indexing step of the pipeline from failed = False to its end
PipelineMonitorStep(c, ws) ==
  CASE c.pc = "poll" -> PipelinePoll(c, ws)
    [] c.pc = "sleep" -> [c EXCEPT !.pc = "poll", !.i = 0, !.all_done = TRUE,
                                   !.round = @ + 1]
    [] c.pc = "term" -> PipelineTerminate(c, ws)
    [] c.pc = "wait" -> PipelineWait(c, ws)
    [] OTHER -> c

\* what the side-by-side run leaves alone
xvars == <<wvars, orch, max_workers, opc, oi, workers, proc, code, termSent,
           killSent, logf, failed, all_done, oexit, waited, telapsed,
           interrupts, log_dir, stage, stage_st, pipe_meta>>

\* both programs have started their N >= 2 workers and enter the monitor loop
InitCompare ==
  /\ WorkersIdle
  /\ OrchOff
  /\ nw \in 2 .. MaxWorkers
  /\ wstat = [w \in WorkerIds |-> None]
  /\ mgr = MonitorStart
  /\ pip = MonitorStart

\* each of the two monitors makes its next call
CompareStep ==
  /\ \A c \in {mgr, pip} : c.pc = "sleep" => c.round < MaxRounds
  /\ mgr' = ManagerMonitorStep(mgr, wstat)
  /\ pip' = PipelineMonitorStep(pip, wstat)
  /\ <<mgr', pip'>> # <<mgr, pip>>
  /\ wstat' = [w \in WorkerIds |->
                 IF w \in (mgr'.kill \ mgr.kill) \cup (pip'.kill \ pip.kill)
                   THEN <<-SIGKILL>> ELSE wstat[w]]
  /\ UNCHANGED <<xvars, nw>>

\* one time unit passes for a monitor blocked in proc.wait(timeout=5)
Waiting(c) == c.pc = "wait" /\ wstat[c.i] = None /\ c.waited < Grace

CompareTick ==
  /\ Waiting(mgr) \/ Waiting(pip)
  /\ mgr' = IF Waiting(mgr) THEN [mgr EXCEPT !.waited = @ + 1] ELSE mgr
  /\ pip' = IF Waiting(pip) THEN [pip EXCEPT !.waited = @ + 1] ELSE pip
  /\ UNCHANGED <<xvars, nw, wstat>>

\* worker w of both programs ends: by itself, by an outside signal, or by the
\* SIGTERM a monitor sent
CompareWorkerExit(w) ==
  /\ w < nw /\ wstat[w] = None
  /\ \E c \in {mgr, pip} : c.pc \in {"poll", "sleep", "term", "wait"}
  /\ \E rc \in OwnExitCodes \cup (IF w \in mgr.term \cup pip.term
                                      THEN {-SIGTERM} ELSE {}) :
        wstat' = [wstat EXCEPT ![w] = <<rc>>]
  /\ UNCHANGED <<xvars, nw, mgr, pip>>

NextCompare ==
  \/ CompareStep
  \/ CompareTick
  \/ \E w \in WorkerIds : CompareWorkerExit(w)

\* the two monitor loops on the same workers, exit events and clock
SpecCompare == InitCompare /\ [][NextCompare]_vars

\* ---------------------------------------------------------------- Part I claims
Spawned == 0 .. (workers - 1)

SomeWorkerFailed == \E w \in Spawned : proc[w] = "exited" /\ code[w] # <<0>>

NoWorkerAlive == \A w \in Spawned : proc[w] = "exited"

\* C1 (fail-fast kill-all, no external interrupt): with N >= 2 workers, once a
\* spawned worker has exited non-zero the Orchestrator eventually exits with a
\* non-zero status; whenever it has exited on the Failed path every worker was
\* spawned and is dead, each one either exited before it was examined or was
\* sent the termination signal, and none was killed without being sent the
\* termination signal first.
C1_FailFastKillAll ==
  /\ [](opc = "exited" /\ failed = "true" =>
          /\ oexit = <<ExitFailed>>
          /\ workers = max_workers
          /\ NoWorkerAlive
          /\ \A w \in Spawned :
               /\ killSent[w] => termSent[w]
               /\ code[w] \in {<<-SIGTERM>>} => termSent[w])
  /\ ((max_workers >= 2 /\ opc # "exited" /\ SomeWorkerFailed)
        ~> (opc = "exited" /\ oexit # None /\ oexit # <<0>>))

\* C1 witness: the Orchestrator exited 1 after a worker failed by itself while
\* another one, still running then, was sent the termination signal and a
\* third had to be killed.
C1_Witness ==
  /\ opc = "exited" /\ oexit = <<ExitFailed>> /\ max_workers >= 2
  /\ \E w \in Spawned : ~termSent[w] /\ code[w] = <<ExitFailed>>
  /\ \E w \in Spawned : termSent[w] /\ code[w] = <<-SIGTERM>>
  /\ \E w \in Spawned : killSent[w]

\* C3 (job outcome, manager): when the Orchestrator has exited, its status is 0
\* exactly if every spawned worker exited 0 and no interrupt was received, and
\* it is 1 if a worker exited non-zero or an interrupt was received.
C3_JobOutcome ==
  (orch = "manager" /\ max_workers >= 1 /\ opc = "exited") =>
     /\ oexit = <<0>> <=> (/\ \A w \in Spawned : proc[w] = "exited" /\ code[w] = <<0>>
                           /\ interrupts = 0)
     /\ (SomeWorkerFailed \/ interrupts > 0) => oexit = <<ExitFailed>>

\* C8 (cancellation): once an interrupt was delivered after the first worker
\* was spawned, the Orchestrator exits non-zero and leaves no worker running.
C8_Cancellation ==
  (opc = "exited" /\ interrupts > 0 /\ workers >= 1) =>
     /\ oexit # <<0>>
     /\ NoWorkerAlive

\* C9 (bounded termination): more than one grace period after the start of
\* the termination phase no spawned worker is still running.
C9_BoundedTermination ==
  telapsed > Grace => NoWorkerAlive

\* --------------------------------------------------------------- Part II claims
Indices == 0 .. (Len(dataset) - 1)

\* C2 (partitioning): the indices a Worker selects are those with
\* index mod num_shards = shard_id, every index it has passed and owns is
\* selected, every index has exactly one owner among the shard ids 0..N-1, no
\* two Workers select the same index, and when all Workers are done every
\* index has been selected.
C2_Partitioning ==
  /\ \A s \in active : \A i \in selected[s] : i % num_shards = s
  /\ \A s \in active : \A i \in Indices :
        (i < conv_idx[s] /\ i % num_shards = s /\ wpc[s] # "idle") => i \in selected[s]
  /\ \A i \in Indices :
        Cardinality({s \in 0 .. (num_shards - 1) : InShard(i, num_shards, s)}) = 1
  /\ \A s, t \in active : s # t => selected[s] \cap selected[t] = {}
  /\ (\A s \in active : wpc[s] = "exited") =>
        UNION {selected[s] : s \in active} = Indices

\* C2 witness: three items and two shards, both Workers done: shard 0 selected
\* {0, 2} and shard 1 selected {1}.
C2_Witness ==
  /\ num_shards = 2 /\ Len(dataset) = 3
  /\ \A s \in active : wpc[s] = "exited"
  /\ selected[0] = {0, 2} /\ selected[1] = {1}

\* C4 (resume): a Worker that was restarted after a crash, whatever the crash
\* point, does not start to process (call add_note for) a turn whose checkpoint
\* write had completed before the crash.
C4_Resume ==
  \A s \in active :
     (restarts > 0 /\ wpc[s] = "add") => CurKey(s) \notin committedEver[CurDir(s)]

\* C5 (checkpoint after side effect): whenever the Worker is down (crashed or
\* exited), every turn whose key is in a persisted Checkpoint Record has a note
\* in the entity's persistent store.
C5_CheckpointedImpliesPersisted ==
  (\A s \in active : wpc[s] \in {"crashed", "exited"}) =>
     \A i \in Indices :
        \A t \in 0 .. (Len(Turns(i)) - 1) :
           TurnKey(t, Turns(i)[t + 1]) \in CheckpointRecord(ConvDir(i))
              => store[ConvDir(i)][t] > 0

\* C6 (completion flag): an entity with a Completion Flag has the keys of all
\* its turns in its Checkpoint Record.
C6_FlagImpliesAllKeys ==
  \A i \in Indices :
     completed_flag[ConvDir(i)] => AllKeys(i) \subseteq CheckpointRecord(ConvDir(i))

C10_SoftFailure ==
  \A s \in active :
     (wpc[s] \in {"turn", "add", "ckpt_open", "ckpt_dump", "persist", "meta", "flag"}) =>
        \A t \in softFailed[s] :
           /\ TurnKey(t, Turns(conv_idx[s])[t + 1]) \notin CheckpointRecord(CurDir(s))
           /\ t \notin counted[s]
           /\ turn_idx[s] > t

\* C11 (fatal errors are never swallowed): once a fatal-pattern error was
\* raised in this run of a Worker, during a unit or during the memory
\* initialisation of an entity, the Worker has exited, with a non-zero code,
\* and went on to no later conversation.
C11_FatalNeverSwallowed ==
  \A s \in active :
     (fatalAt[s] # None \/ initFatal[s] # {}) =>
        /\ wpc[s] = "exited"
        /\ wexit[s] # <<0>>
        /\ \A i \in initFatal[s] : conv_idx[s] = i

\* C12 (single writer): no two running Workers have the checkpoint file of the
\* same entity directory (output_dir/conv_id) open for writing at the same
\* time, nor are they inside the processing of the same directory at all.
C12_SingleWriter ==
  \A s, t \in active :
     (/\ s # t
      /\ wpc[s] \in {"turn", "add", "ckpt_open", "ckpt_dump", "persist", "meta", "flag"}
      /\ wpc[t] \in {"turn", "add", "ckpt_open", "ckpt_dump", "persist", "meta", "flag"})
       => CurDir(s) # CurDir(t)

\* the checkpoint file of the entity the Worker is at exists and is unparsable
CorruptHere(s) == processed_file[CurDir(s)].st = "corrupt"

\* C13 (checkpoint corruption is never fatal): a Worker that comes to an
\* entity of its shard whose checkpoint file is unparsable enters the entity
\* with an empty Checkpoint Record (it neither exits nor skips the entity), and
\* as long as the file is unparsable every turn not yet reached is still to
\* be processed.
C13_CorruptionNotFatal ==
  /\ [][\A s \in active :
          (/\ wpc[s] = "loop" /\ conv_idx[s] < Len(dataset) /\ ToIndex(s)
           /\ CorruptHere(s)
           /\ faults' = faults /\ restarts' = restarts)
            => /\ wpc'[s] = "turn"
               /\ wexit'[s] = None
               /\ conv_idx'[s] = conv_idx[s]
               /\ turn_idx'[s] = 0
               /\ processed_turns'[s] = {}]_vars
  /\ [](\A s \in active :
          (wpc[s] \in {"turn", "add"} /\ CorruptHere(s)) =>
             \A t \in turn_idx[s] .. (Len(Turns(conv_idx[s])) - 1) :
                TurnKey(t, Turns(conv_idx[s])[t + 1]) \notin processed_turns[s])

\* C13 witness: after a restart the Worker found the checkpoint file of a
\* two-turn entity unparsable and is processing again the first turn, which had
\* been committed before.
C13_Witness ==
  \E s \in active :
     /\ restarts > 0 /\ wpc[s] = "add" /\ turn_idx[s] = 0
     /\ CorruptHere(s)
     /\ processed_turns[s] = {}
     /\ CurKey(s) \in committedEver[CurDir(s)]

\* some running Worker is inside the rewrite of the checkpoint file of d
Rewriting(d) ==
  \E s \in active : wpc[s] = "ckpt_dump" /\ CurDir(s) = d

\* C14 (grow-only record): outside a rewrite in progress, the persisted
\* Checkpoint Record of every entity contains every key that a completed
\* checkpoint write ever put into it, across errors, crashes and restarts.
C14_GrowOnly ==
  \A d \in Dirs :
     ~Rewriting(d) => committedEver[d] \subseteq CheckpointRecord(d)

\* every item of shard s that has turns has its Completion Flag
AllFlagged(s) ==
  \A i \in Indices :
     (InShard(i, num_shards, s) /\ Len(Turns(i)) > 0) => completed_flag[ConvDir(i)]

\* C15 (idempotent re-invocation): while every entity of its shard has a
\* Completion Flag, no step of the Worker, of a re-invocation in particular,
\* enters an entity or changes a Checkpoint Record, a Completion Flag, a
\* per-entity metadata file or a persistent store; and a run that completed
\* without any error leaves every entity of the shard flagged, so that a second
\* complete run leaves the per-entity state of the first.
C15_IdempotentRerun ==
  /\ [][\A s \in active :
          AllFlagged(s) =>
             /\ UNCHANGED <<processed_file, completed_flag, metadata_file, store>>
             /\ wpc'[s] \in {"loop", "exited", "crashed"}]_vars
  /\ [](\A s \in active :
          (wpc[s] = "exited" /\ wexit[s] = <<0>> /\ faults = 0) => AllFlagged(s))

\* C15 witness: the Worker ran to completion twice without any error: entities
\* are flagged, and the second run indexed none of them.
C15_Witness ==
  \E s \in active :
     /\ restarts > 0 /\ faults = 0
     /\ wpc[s] = "exited" /\ wexit[s] = <<0>>
     /\ \E i \in Indices : InShard(i, num_shards, s) /\ completed_flag[ConvDir(i)]
     /\ index_metadata[s] = <<>>

\* C16 (configuration errors): an Orchestrator started with a worker count of
\* zero or less spawns no Worker and ends with a non-zero exit code.
C16_InvalidWorkerCount ==
  (max_workers <= 0 /\ opc = "exited") => (workers = 0 /\ oexit # <<0>>)

\* C17 (non-positive shard count): a Worker invoked with num_shards <= 0
\* selects no item, enters no entity, and when it has exited its exit code is
\* not 0.
C17_RejectsBadShardCount ==
  num_shards <= 0 =>
     \A s \in active :
        /\ selected[s] = {}
        /\ wpc[s] \in {"loop", "exited"}
        /\ wpc[s] = "exited" => wexit[s] # <<0>>

\* C18 (supervision errors escalate): when the Orchestrator has exited after
\* the start of some Worker failed, its exit code is non-zero, every Worker
\* started before was sent through the termination phase and none is alive.
C18_SpawnFailureEscalates ==
  (opc = "exited" /\ workers < max_workers) =>
     /\ oexit # None /\ oexit # <<0>>
     /\ NoWorkerAlive

\* C19 (log handles): when the standalone manager has exited, no log file
\* handle that it opened is still open.
C19_LogHandlesClosed ==
  (orch = "manager" /\ opc = "exited") => \A w \in WorkerIds : logf[w] # "open"

\* C20 (single worker): an Orchestrator with one Worker never is in the poll
\* loop, never sends SIGTERM or SIGKILL, and when it has exited its exit code
\* is that of the Worker.
C20_SingleWorker ==
  max_workers = 1 =>
     /\ opc \notin {"poll", "sleep"}
     /\ \A w \in WorkerIds : ~termSent[w] /\ ~killSent[w]
     /\ opc = "exited" => oexit = code[0]

\* the turns of the current entity whose processing was started in this run
Attempted(s) == counted[s] \cup softFailed[s]

\* C21 (in-order processing): while a Worker is inside an entity, every turn
\* whose processing it started in this run lies before the turn it is at, or is
\* the turn it is at and still in progress; so when the processing of a turn
\* starts, all attempts made so far are finished, were of earlier turns, and
\* the turn itself was not attempted before.
C21_InOrder ==
  \A s \in active :
     wpc[s] \in {"turn", "add", "ckpt_open", "ckpt_dump", "persist", "meta", "flag"} =>
        \A t \in Attempted(s) :
           \/ t < turn_idx[s]
           \/ t = turn_idx[s] /\ wpc[s] \in {"ckpt_open", "ckpt_dump", "persist"}

\* C21 witness: the processing of the second turn starts after the first turn
\* was attempted (committed or soft-failed) in the same run.
C21_Witness ==
  \E s \in active :
     wpc[s] = "add" /\ turn_idx[s] = 1 /\ Attempted(s) = {0}

\* C22 (attributable logs): when a log directory is configured, the output of
\* every spawned Worker goes to the file of its own shard id in that
\* directory, and no two Workers have the same output sink.
C22_AttributableLogs ==
  log_dir # None =>
     /\ \A w \in Spawned : Sink(w) = <<"file", log_dir[1], w>>
     /\ \A v, w \in Spawned : v # w => Sink(v) # Sink(w)

\* C23 (completion writes): the metadata record of an entity is written before
\* its Completion Flag: a Worker about to write the flag has written the record
\* already, and in every state, after a crash between the two writes as well,
\* an entity with a Completion Flag has its metadata file, whose num_turns is
\* the number of turns of the entity.
C23_MetadataBeforeFlag ==
  /\ \A s \in active :
        wpc[s] = "flag" =>
           /\ ~completed_flag[CurDir(s)]
           /\ metadata_file[CurDir(s)] # None
           /\ metadata_file[CurDir(s)][1].num_turns = Len(Turns(conv_idx[s]))
  /\ \A i \in Indices :
        completed_flag[ConvDir(i)] =>
           /\ metadata_file[ConvDir(i)] # None
           /\ metadata_file[ConvDir(i)][1].num_turns = Len(Turns(i))

\* C23 witness: after a restart, a two-turn entity has its Completion Flag and
\* its metadata record with num_turns = 2.
C23_Witness ==
  \E i \in Indices :
     /\ restarts > 0
     /\ completed_flag[ConvDir(i)]
     /\ Len(Turns(i)) > 1
     /\ metadata_file[ConvDir(i)] # None
     /\ metadata_file[ConvDir(i)][1].num_turns = Len(Turns(i))

\* C24 (termination phase): the Orchestrator is in the termination phase only
\* with failed = True, a Worker was sent SIGTERM or SIGKILL only there, on the
\* path to exit status 0 no Worker was sent either signal, and no step sends
\* SIGTERM or SIGKILL to a Worker that has exited already.
C24_OnlyLiveWorkersSignalled ==
  /\ [](/\ opc \in {"term", "wait"} => failed = "true"
        /\ (\E w \in WorkerIds : termSent[w] \/ killSent[w]) =>
              (failed = "true" /\ opc \in {"term", "wait", "exited"})
        /\ (opc \in {"close", "index_done"} \/ oexit = <<0>>) =>
              \A w \in WorkerIds : ~termSent[w] /\ ~killSent[w])
  /\ [][\A w \in WorkerIds :
          proc[w] = "exited" =>
             (termSent'[w] = termSent[w] /\ killSent'[w] = killSent[w])]_vars

\* C24 witness: the termination phase is over; one Worker had failed, one had
\* exited with 0 before it was examined and got no signal, one was running and
\* was sent SIGTERM.
C24_Witness ==
  /\ opc = "exited" /\ failed = "true"
  /\ \E w \in Spawned : code[w] = <<ExitFailed>> /\ ~termSent[w] /\ ~killSent[w]
  /\ \E w \in Spawned : code[w] = <<0>> /\ ~termSent[w] /\ ~killSent[w]
  /\ \E w \in Spawned : termSent[w]

\* C25 (Orchestrator liveness): once all Workers are spawned and have exited,
\* or once the termination phase is entered, the Orchestrator eventually is
\* out of its loops, the manager with exit status 0 or 1; the termination
\* phase is left only by the exit with status 1, so it always finishes that
\* way, also when a Worker ignores SIGTERM; and as long as some Worker is
\* running and none has failed, the Orchestrator stays in the spawn and poll
\* loops and has not exited.
C25_OrchestratorLiveness ==
  /\ (((workers = max_workers /\ NoWorkerAlive) \/ opc \in {"term", "wait"})
        ~> (/\ opc \in {"exited", "index_done"}
            /\ orch = "manager" => oexit \in {<<0>>, <<ExitFailed>>}))
  /\ [][(opc = "term" \/ opc = "wait") =>
          (opc' \in {"term", "wait"} \/ (opc' = "exited" /\ oexit' = <<ExitFailed>>))]_vars
  /\ []((/\ \E w \in Spawned : proc[w] = "running"
          /\ ~SomeWorkerFailed)
           => (opc \in {"spawn", "poll", "sleep"} /\ oexit = None))

\* C25 witness: the termination phase finished although a Worker ignored
\* SIGTERM for the whole grace period: it was killed, the Orchestrator exited.
C25_Witness ==
  /\ opc = "exited" /\ oexit = <<ExitFailed>> /\ waited = Grace
  /\ \E w \in Spawned : termSent[w] /\ killSent[w] /\ code[w] = <<-SIGKILL>>

\* the directories of the entities of shard s that have a Completion Flag
FlaggedDirs(s) ==
  {ConvDir(i) : i \in {j \in Indices : /\ InShard(j, num_shards, s)
                                       /\ completed_flag[ConvDir(j)]}}

\* C26 (per-shard index metadata): after a run that exited with 0, the file
\* index_metadata_<shard_id>.json exists and lists exactly the entities of the
\* shard that have a Completion Flag, those completed by an earlier run
\* included; a first run that exited with a fatal error has not written it.
C26_IndexListsCompleted ==
  \A s \in active :
     /\ (wpc[s] = "exited" /\ wexit[s] = <<0>>) =>
           /\ index_file[s] # None
           /\ {index_file[s][1][k] : k \in 1 .. Len(index_file[s][1])} = FlaggedDirs(s)
           /\ Len(index_file[s][1]) = Cardinality(FlaggedDirs(s))
     /\ (wpc[s] = "exited" /\ wexit[s] = <<ExitFailed>> /\ restarts = 0) =>
           index_file[s] = None

\* the Index stage has ended well: the single indexing process, or every one of
\* the parallel Workers, exited with code 0
IndexOk ==
  IF max_workers > 1
    THEN workers = max_workers /\ \A w \in Spawned : proc[w] = "exited" /\ code[w] = <<0>>
    ELSE stage_st[1] = "ok"

StageOk(k) == IF k = 1 THEN IndexOk ELSE stage_st[k] = "ok"

\* C27 (pipeline stage ordering): the stages run one at a time in the order
\* Index, Retrieve, Retrieval evaluation, Generation evaluation; a stage that
\* was started had every earlier stage end with code 0 in all its processes;
\* after a stage or an indexing Worker ended non-zero no later stage is ever
\* started, the pipeline metadata file is not written, and the pipeline, once
\* exited, has exit code 1; the metadata file is written only after all four
\* stages ended with code 0.
C27_StageOrdering ==
  /\ \A k \in 1 .. Len(StageNames) :
        /\ stage_st[k] # "notrun" =>
              (k <= stage /\ \A j \in 1 .. (k - 1) : StageOk(j))
        /\ stage_st[k] = "running" => (k = stage /\ opc = "run")
        /\ stage_st[k] = "failed" =>
              /\ opc = "exited" /\ oexit = <<ExitFailed>>
              /\ ~pipe_meta
              /\ \A j \in (k + 1) .. Len(StageNames) : stage_st[j] = "notrun"
  /\ SomeWorkerFailed =>
        /\ \A k \in 1 .. Len(StageNames) : stage_st[k] = "notrun"
        /\ ~pipe_meta
        /\ opc = "exited" => oexit = <<ExitFailed>>
  /\ pipe_meta =>
        /\ \A k \in 1 .. Len(StageNames) : StageOk(k)
        /\ oexit = <<0>>
  /\ (opc = "exited" /\ oexit = <<0>>) => pipe_meta

\* C27 witness: after parallel indexing and Retrieve ended with code 0, the
\* Retrieval evaluation ended non-zero: the pipeline exited 1, Generation
\* evaluation was not started, no metadata file.
C27_Witness ==
  /\ max_workers > 1 /\ IndexOk
  /\ stage_st = <<"notrun", "ok", "failed", "notrun">>
  /\ opc = "exited" /\ oexit = <<ExitFailed>> /\ ~pipe_meta

\* C28 (no duplicate persistence): as long as no checkpoint file was ever left
\* truncated (no crash inside its rewrite, no error of the dump), across
\* errors, crashes and restarts no turn has more than one note in the
\* persistent store of its entity; the Worker about to insert the note of a
\* turn has the key in the persisted Checkpoint Record already and the store
\* has no note of that turn yet.
C28_NoDuplicatePersistence ==
  ~corrupted =>
     /\ \A d \in Dirs : \A t \in TurnIds : store[d][t] <= 1
     /\ \A s \in active :
           wpc[s] = "persist" =>
              /\ CurKey(s) \in CheckpointRecord(CurDir(s))
              /\ store[CurDir(s)][turn_idx[s]] = 0

\* C28 witness: a run of a two-turn entity was cut short after the first turn
\* was checkpointed and persisted; the Worker was run again, passed over the
\* first turn without processing it and is about to process the second one.
C28_Witness ==
  \E s \in active :
     /\ restarts > 0 /\ ~corrupted
     /\ wpc[s] = "add" /\ turn_idx[s] = 1
     /\ counted[s] = {} /\ softFailed[s] = {}
     /\ store[CurDir(s)][0] = 1 /\ store[CurDir(s)][1] = 0

\* the keys Worker s loaded from the checkpoint file when it entered the
\* entity: those in processed_turns that this run did not add itself
LoadedKeys(s) ==
  processed_turns[s] \ {TurnKey(t, Turns(conv_idx[s])[t + 1]) : t \in Attempted(s)}

\* C29 (indexed-count accounting): in the metadata record a Worker has just
\* written for an entity, num_indexed is the size of the persisted Checkpoint
\* Record minus the number of keys loaded at the start of the entity, it is at
\* most num_turns, and at most num_turns minus the number of loaded keys.
C29_IndexedCount ==
  \A s \in active :
     wpc[s] = "flag" =>
        LET m == metadata_file[CurDir(s)][1]
            k == Cardinality(LoadedKeys(s))
        IN /\ m.num_indexed = Cardinality(CheckpointRecord(CurDir(s))) - k
           /\ m.num_indexed <= m.num_turns
           /\ m.num_indexed <= m.num_turns - k

\* C30 (Worker exit code): a Worker that exited with a non-zero code exited
\* with 1 at a turn whose processing raised a fatal-pattern error; a Worker
\* that exited without such an error, after soft failures or after an error of
\* the memory initialisation of an entity, exited with 0; a running Worker has
\* no exit code; and an entity whose memory initialisation raised an error was
\* left behind without Completion Flag, the Worker having moved on.
C30_ExitCode ==
  \A s \in active :
     /\ (wpc[s] = "exited" /\ wexit[s] # <<0>>) =>
           /\ wexit[s] = <<ExitFailed>>
           /\ fatalAt[s] # None
           /\ fatalAt[s][1].conv = conv_idx[s]
           /\ fatalAt[s][1].turn < Len(Turns(conv_idx[s]))
     /\ (wpc[s] = "exited" /\ fatalAt[s] = None) => wexit[s] = <<0>>
     /\ wpc[s] \notin {"exited", "crashed"} => wexit[s] = None
     /\ wpc[s] # "crashed" =>
           \A i \in initFatal[s] :
              conv_idx[s] > i /\ ~completed_flag[ConvDir(i)]

\* C30 witness: the memory initialisation of an entity raised an error with a
\* fatal-pattern message; the Worker went on, ended its run with exit code 0,
\* and the entity has no Completion Flag.
C30_Witness ==
  \E s \in active :
     /\ wpc[s] = "exited" /\ wexit[s] = <<0>>
     /\ \E i \in initFatal[s] : ~completed_flag[ConvDir(i)] /\ Len(Turns(i)) > 0
     /\ index_file[s] # None

\* the verdict a monitor has reached
Verdict(c) ==
  IF c.pc = "succeeded" THEN "Succeeded" ELSE IF c.failed THEN "Failed" ELSE "none"

\* C31 (the two orchestrators agree): run side by side on N >= 2 workers with
\* the same exit events, without interrupt or spawn failure, the monitor of
\* run_parallel_indexing and the inline monitor of the pipeline have at every
\* moment the same verdict, reached in the same poll round, have sent SIGTERM
\* to the same workers and SIGKILL to the same workers, and each of them, once
\* it has exited on Failed, has exit code 1.
C31_OrchestratorsAgree ==
  /\ Verdict(mgr) = Verdict(pip)
  /\ mgr.round = pip.round
  /\ mgr.term = pip.term
  /\ mgr.kill = pip.kill
  /\ mgr.pc = "exited" <=> pip.pc = "exited"
  /\ \A c \in {mgr, pip} :
        /\ Verdict(c) = "Failed" => c.pc \in {"term", "wait", "exited"}
        /\ c.pc = "exited" => (Verdict(c) = "Failed" /\ c.exit = <<ExitFailed>>)
        /\ c.pc = "succeeded" => (c.term = {} /\ c.kill = {} /\ c.exit = None)

\* C31 witness: both monitors found a failed worker in the second poll round,
\* sent SIGTERM to the two others, killed one of them after the grace period,
\* and exited with 1.
C31_Witness ==
  /\ nw = 3
  /\ mgr.pc = "exited" /\ pip.pc = "exited"
  /\ mgr.round = 1 /\ pip.round = 1
  /\ Cardinality(pip.term) = 2 /\ Cardinality(pip.kill) = 1
  /\ mgr.exit = <<ExitFailed>> /\ pip.exit = <<ExitFailed>>

====
